---- MODULE Spec2Model ----
(***************************************************************************)
(* State-machine model of the AM2321/AM2322 sensor session implemented by  *)
(* class AM232x (am232x/am232x.py).                                        *)
(*                                                                         *)
(* Every method of the class is translated statement by statement.  The    *)
(* Python call stack is the variable "stack" (a sequence of program        *)
(* labels, innermost frame first); the locals of each method live in their *)
(* own variable because no method is re-entered while it is active.        *)
(* The smbus transport is the environment: every transport invocation      *)
(* either raises IOError or succeeds, and a successful 8-byte read returns *)
(* an arbitrary reading.                                                   *)
(*                                                                         *)
(* Numbers: a derived value v/10.0 is kept as the integer v (tenths); the  *)
(* discomfort index is kept in millionths, so the arithmetic is exact.     *)
(* The write-only attribute _read_time and the logger are not state of     *)
(* the protocol and are left out.                                          *)
(***************************************************************************)
EXTENDS Integers, Sequences, FiniteSets, TLC

----------------------------------------------------------------------------
(* Bounds of the model.                                                    *)

\* largest bus-level retry count a session is constructed with
MaxRetryNum == 1
\* largest retry_num a caller passes to read() explicitly
MaxReadRetry == 1

----------------------------------------------------------------------------
(* Program constants.                                                      *)

wait_wakeup == 800
wait_writemode == 1500
wait_readmode == 30
\* retry_wait of _read_i2c_block_data
read_retry_wait == 200000
\* default retry_wait of __init__
default_retry_wait == 20000
\* defaults of read(): retry_num and retry_wait
default_read_retry_num == 10
default_read_retry_wait == 2000000

----------------------------------------------------------------------------
(* Bit arithmetic on naturals.                                             *)

RECURSIVE Xor(_, _)
Xor(a, b) ==
    IF a = 0 THEN b
    ELSE IF b = 0 THEN a
    ELSE (((a % 2) + (b % 2)) % 2) + 2 * Xor(a \div 2, b \div 2)

\* x << 8 | y for a byte y
Shl8Or(x, y) == x * 256 + y

----------------------------------------------------------------------------
(* check_err and check_crc as functions of the raw reading.                *)

\* one pass of "for j in range(8)" of check_crc
RECURSIVE crc_bits(_, _)
crc_bits(c, j) ==
    IF j = 0 THEN c
    ELSE IF c % 2 = 1 THEN crc_bits(Xor(c \div 2, 40961), j - 1)
    ELSE crc_bits(c \div 2, j - 1)

\* "for i in range(6)" of check_crc: clc_crcsum after bytes i..6 of raw
RECURSIVE crc_bytes(_, _, _)
crc_bytes(raw, c, i) ==
    IF i > 6 THEN c
    ELSE crc_bytes(raw, crc_bits(Xor(c, raw[i]), 8), i + 1)

\* clc_crcsum of check_crc
clc_crcsum(raw) == crc_bytes(raw, 65535, 1)

\* rcv_crcsum of check_crc: raw[7] << 8 | raw[6] (0-based), here 1-based
rcv_crcsum(raw) == Shl8Or(raw[8], raw[7])

\* outcome of a method: kind is "ok" or the name of the raised exception
Outcome(kind, val) == [kind |-> kind, val |-> val]

\* check_err(): raises ReceiveAM232xDataError(error_code = raw[2])
check_err_lenient(raw) ==
    IF raw[3] > 128
    THEN Outcome("ReceiveAM232xDataError", <<raw[3]>>)
    ELSE Outcome("ok", <<>>)
check_err(raw) ==
    IF raw[3] >= 128
    THEN Outcome("ReceiveAM232xDataError", <<raw[3]>>)
    ELSE Outcome("ok", <<>>)

\* check_crc(): raises AM232xCrcCheckError(recv_crc, calc_crc)
check_crc_bigendian(raw) ==
    LET rcv == Shl8Or(raw[7], raw[8])
        clc == clc_crcsum(raw)
    IN  IF rcv # clc
        THEN Outcome("AM232xCrcCheckError", <<rcv, clc>>)
        ELSE Outcome("ok", <<>>)
check_crc(raw) ==
    LET rcv == rcv_crcsum(raw)
        clc == clc_crcsum(raw)
    IN  IF rcv # clc
        THEN Outcome("AM232xCrcCheckError", <<rcv, clc>>)
        ELSE Outcome("ok", <<>>)

\* the exceptions read() catches with "except AM232xError"
AM232xError == {"ReceiveAM232xDataError", "AM232xCrcCheckError"}

----------------------------------------------------------------------------
(* Reference CRC-16/MODBUS in its catalogue form: width 16, poly 0x8005,   *)
(* init 0xFFFF, refin, refout, xorout 0.  Input bytes are reflected and    *)
(* shifted in MSB first; the register is reflected at the end.             *)

RECURSIVE Reflect(_, _)
Reflect(x, w) ==
    IF w = 0 THEN 0 ELSE ((x % 2) * (2 ^ (w - 1))) + Reflect(x \div 2, w - 1)

RECURSIVE RefShift(_, _)
RefShift(reg, n) ==
    IF n = 0 THEN reg
    ELSE IF reg >= 32768 THEN RefShift(Xor((reg * 2) % 65536, 32773), n - 1)
    ELSE RefShift((reg * 2) % 65536, n - 1)

RECURSIVE RefFeed(_, _, _)
RefFeed(bytes, reg, i) ==
    IF i > Len(bytes) THEN reg
    ELSE RefFeed(bytes, RefShift(Xor(reg, Reflect(bytes[i], 8) * 256), 8), i + 1)

RefCrc16Modbus(bytes) == Reflect(RefFeed(bytes, 65535, 1), 16)

----------------------------------------------------------------------------
(* Readings the transport may return for the 8-byte read.                  *)

\* 8 bytes whose last two are the little-endian CRC of the first six
WithCrc(p) == p \o <<clc_crcsum(p \o <<0, 0>>) % 256, clc_crcsum(p \o <<0, 0>>) \div 256>>
\* the same prefix with a CRC that does not match
WithBadCrc(p) == p \o <<(clc_crcsum(p \o <<0, 0>>) + 1) % 256, clc_crcsum(p \o <<0, 0>>) \div 256>>

Readings ==
    { WithCrc(<<3, 4, 2, 38, 0, 231>>),       \* humidity 55.0, temperature 23.1
      WithCrc(<<3, 4, 1, 2, 128, 101>>),      \* sign bit set in byte 4
      WithBadCrc(<<3, 4, 1, 2, 0, 200>>),     \* status ok, checksum wrong
      WithCrc(<<3, 4, 128, 0, 0, 0>>),        \* status >= 0x80, checksum right
      WithBadCrc(<<3, 4, 129, 0, 0, 0>>) }    \* status >= 0x80, checksum wrong

\* a reading that passes both checks
Valid(raw) == check_err(raw).kind = "ok" /\ check_crc(raw).kind = "ok"

----------------------------------------------------------------------------
(* State.                                                                  *)

VARIABLES
    self,       \* attributes of the AM232x object; <<>> is "attribute absent"
    cfg,        \* _retry_wait and _retry_num given to __init__
    stack,      \* call stack: program labels, innermost first; <<>> between calls
    rd,         \* arguments and cnt of the active read()
    i2c,        \* the last exchange with the transport: arguments and cnt of
                \* _func_i2c_retry (or the direct write of wakeup) and its attempts
    calc_idx,   \* arguments of the active _calc()
    d_hum,      \* local "hum" of the active discomfort getter
    ret,        \* value returned by the frame that returned last
    call,       \* the public operation in progress or just finished
    entry,      \* the flags, and whether _raw_data existed, when it was called
    result,     \* its outcome once it has finished
    buslog,     \* bus calls completed and protocol sleeps taken by that operation
                \* (the outcome of the wake write is ignored by the code and
                \* is kept in i2c only)
    hist        \* history: unchecked = some read() so far had a check disabled;
                \* prev_wakeup = the previous operation was a wakeup() called while
                \* not awake, prev_ops = the bus calls it made; only_bad_crc = every
                \* reading fetched by this operation had status < 0x80 and a
                \* checksum that does not match; pending = a measure command
                \* has been written since the last 8-byte read that returned
                \* data (or since construction)

vars == <<self, cfg, stack, rd, i2c, calc_idx, d_hum, ret, call, entry, result, buslog, hist>>

None == <<>>
NoResult == Outcome("none", <<>>)
NoRead == [check_err |-> TRUE, check_crc |-> TRUE, retry_num |-> 0, retry_wait |-> 0, cnt |-> 0]
NoI2c == [func |-> "none", reg |-> 0, arg |-> <<>>, retry_wait |-> 0, retry_num |-> 0,
          cnt |-> 0, trace |-> <<>>, status |-> "idle"]
NoCall == [op |-> "none", check_err |-> TRUE, check_crc |-> TRUE, retry_num |-> 0, retry_wait |-> 0]

\* an entry of buslog or of i2c.trace
BusEv(func, reg, arg, res) == [func |-> func, reg |-> reg, arg |-> arg, res |-> res]
Sleep(usec) == BusEv("usleep", 0, <<usec>>, "ok")
\* the transport calls of a log, without the sleeps
IsBusOp(e) == e.func # "usleep"
BusOps(log) == SelectSeq(log, IsBusOp)

Snapshot(s) == [wakeup |-> s.wakeup, write_mode |-> s.write_mode, measured |-> s.measured,
                has_raw |-> s.raw_data # None]

\* __init__: flags false, no cached attribute; wakeup=True calls wakeup()
Init ==
    /\ \E w \in BOOLEAN :
         self = [wakeup |-> w, write_mode |-> FALSE, measured |-> FALSE,
                 raw_data |-> None, humidity |-> None, temperature |-> None,
                 discomfort |-> None]
    /\ \E n \in 0..MaxRetryNum :
         cfg = [retry_wait |-> default_retry_wait, retry_num |-> n]
    /\ stack = <<>>
    /\ rd = NoRead
    /\ i2c = NoI2c
    /\ calc_idx = <<>>
    /\ d_hum = None
    /\ ret = None
    /\ call = NoCall
    /\ entry = Snapshot(self)
    /\ result = NoResult
    /\ buslog = <<>>
    /\ hist = [unchecked |-> FALSE, prev_wakeup |-> FALSE, prev_ops |-> 0,
               only_bad_crc |-> TRUE, pending |-> FALSE]

----------------------------------------------------------------------------
(* Calls, returns and exceptions.                                          *)

Top == IF stack = <<>> THEN "idle" ELSE Head(stack)
At(label) == stack # <<>> /\ Head(stack) = label

\* replace the innermost label by the given labels
Goto(labels) == stack' = labels \o Tail(stack)

\* return v from the innermost frame
Return(v) ==
    /\ stack' = Tail(stack)
    /\ ret' = v
    /\ result' = IF Len(stack) = 1 THEN Outcome("ok", v) ELSE result

\* an exception no frame catches: the operation ends with it
Raise(kind, val) ==
    /\ stack' = <<>>
    /\ ret' = None
    /\ result' = Outcome(kind, val)
    /\ rd' = NoRead
    /\ calc_idx' = <<>>
    /\ d_hum' = None

\* the caller invokes a public operation
Begin(c, label) ==
    /\ stack = <<>>
    /\ stack' = <<label>>
    /\ call' = c
    /\ entry' = Snapshot(self)
    /\ result' = NoResult
    /\ buslog' = <<>>
    /\ ret' = None
    /\ i2c' = NoI2c
    /\ hist' = [unchecked |-> hist.unchecked \/ ~c.check_err \/ ~c.check_crc,
                prev_wakeup |-> call.op = "wakeup" /\ ~entry.wakeup,
                prev_ops |-> IF call.op = "wakeup" /\ ~entry.wakeup
                             THEN Len(BusOps(buslog)) ELSE 0,
                only_bad_crc |-> TRUE,
                pending |-> hist.pending]
    /\ UNCHANGED <<self, cfg, calc_idx, d_hum>>

----------------------------------------------------------------------------
(* _func_i2c_retry and the three wrappers around it.                       *)

\* a frame of _func_i2c_retry(func, args, retry_wait, retry_num) at cnt = 0
I2cFrame(func, reg, arg, wait, num) ==
    [func |-> func, reg |-> reg, arg |-> arg, retry_wait |-> wait, retry_num |-> num,
     cnt |-> 0, trace |-> <<>>, status |-> "running"]

\* _write_byte_data(register, data)
write_byte_data(register, data) ==
    I2cFrame("write_byte_data", register, <<data>>, cfg.retry_wait, cfg.retry_num)

\* _write_i2c_block_data(register, data_list)
write_i2c_block_data(register, data_list) ==
    I2cFrame("write_i2c_block_data", register, data_list, cfg.retry_wait, cfg.retry_num)

\* _read_i2c_block_data(register, length)
read_i2c_block_data(register, length) ==
    I2cFrame("read_i2c_block_data", register, <<length>>, read_retry_wait, cfg.retry_num)

\* what a successful transport call returns
TransportResult(func) == IF func = "read_i2c_block_data" THEN Readings ELSE {None}

I2cEv(res) == BusEv(i2c.func, i2c.reg, i2c.arg, res)

\* line 81: func(chip_addr, *args) returns
i2c_return ==
    /\ At("i2c")
    /\ \E data \in TransportResult(i2c.func) : Return(data)
    /\ i2c' = [i2c EXCEPT !.trace = Append(@, I2cEv("ok")), !.status = "returned"]
    /\ buslog' = Append(buslog, I2cEv("ok"))
    /\ hist' = [hist EXCEPT !.pending =
                   IF i2c.func = "write_i2c_block_data" THEN TRUE
                   ELSE IF i2c.func = "read_i2c_block_data" THEN FALSE
                   ELSE @]
    /\ UNCHANGED <<self, cfg, rd, calc_idx, d_hum, call, entry>>

\* lines 82-87: IOError with cnt < retry_num: usleep(retry_wait), cnt += 1, again
RetryAllowed_offbyone(cnt, num) == cnt <= num
RetryAllowed(cnt, num) == cnt < num

i2c_retry ==
    /\ At("i2c")
    /\ RetryAllowed(i2c.cnt, i2c.retry_num)
    /\ i2c' = [i2c EXCEPT !.trace = @ \o <<I2cEv("IOError"), Sleep(i2c.retry_wait)>>,
                          !.cnt = @ + 1]
    /\ UNCHANGED <<self, cfg, stack, rd, calc_idx, d_hum, ret, call, entry, result,
                   buslog, hist>>

\* lines 88-89: IOError with the budget spent: raise e
i2c_raise_caught ==
    /\ At("i2c")
    /\ ~RetryAllowed(i2c.cnt, i2c.retry_num)
    /\ i2c' = [i2c EXCEPT !.trace = Append(@, I2cEv("IOError")), !.status = "raised"]
    /\ buslog' = Append(buslog, I2cEv("IOError"))
    /\ IF i2c.func = "read_i2c_block_data" /\ rd.cnt < rd.retry_num
       THEN /\ self' = [self EXCEPT !.measured = FALSE]
            /\ rd' = [rd EXCEPT !.cnt = @ + 1]
            /\ stack' = <<"read">> \o Tail(Tail(stack))
            /\ UNCHANGED <<ret, result, calc_idx, d_hum>>
       ELSE /\ Raise("IOError", <<>>)
            /\ self' = self
    /\ UNCHANGED <<cfg, call, entry, hist>>
i2c_raise ==
    /\ At("i2c")
    /\ ~RetryAllowed(i2c.cnt, i2c.retry_num)
    /\ i2c' = [i2c EXCEPT !.trace = Append(@, I2cEv("IOError")), !.status = "raised"]
    /\ buslog' = Append(buslog, I2cEv("IOError"))
    /\ Raise("IOError", <<>>)
    /\ UNCHANGED <<self, cfg, call, entry, hist>>

----------------------------------------------------------------------------
(* wakeup, set_write_mode, measure.                                        *)

\* _del_properties applied to the attributes s
del_properties(s) ==
    [s EXCEPT !.humidity = None, !.temperature = None, !.discomfort = None]

\* wakeup() when already awake: return at once
wakeup_noop ==
    /\ At("wakeup")
    /\ self.wakeup
    /\ Return(None)
    /\ UNCHANGED <<self, cfg, rd, i2c, calc_idx, d_hum, call, entry, buslog, hist>>

\* wakeup() otherwise: one direct write whose failure is swallowed, flag, usleep
wakeup_write_raises ==
    /\ At("wakeup")
    /\ ~self.wakeup
    /\ \/ /\ i2c' = [I2cFrame("write_byte_data", 0, <<0>>, 0, 0) EXCEPT
                       !.trace = <<BusEv("write_byte_data", 0, <<0>>, "ok")>>,
                       !.status = "direct"]
          /\ buslog' = buslog \o <<BusEv("write_byte_data", 0, <<0>>, "ignored"),
                                   Sleep(wait_wakeup)>>
          /\ self' = [self EXCEPT !.wakeup = TRUE]
          /\ Return(None)
          /\ UNCHANGED <<rd, calc_idx, d_hum>>
       \/ /\ i2c' = [I2cFrame("write_byte_data", 0, <<0>>, 0, 0) EXCEPT
                       !.trace = <<BusEv("write_byte_data", 0, <<0>>, "IOError")>>,
                       !.status = "direct"]
          /\ buslog' = Append(buslog, BusEv("write_byte_data", 0, <<0>>, "ignored"))
          /\ self' = self
          /\ Raise("IOError", <<>>)
    /\ UNCHANGED <<cfg, call, entry, hist>>
wakeup_write_noflag ==
    /\ At("wakeup")
    /\ ~self.wakeup
    /\ \E res \in {"ok", "IOError"} :
         i2c' = [I2cFrame("write_byte_data", 0, <<0>>, 0, 0) EXCEPT
                    !.trace = <<BusEv("write_byte_data", 0, <<0>>, res)>>,
                    !.status = "direct"]
    /\ buslog' = buslog \o <<BusEv("write_byte_data", 0, <<0>>, "ignored"), Sleep(wait_wakeup)>>
    /\ Return(None)
    /\ UNCHANGED <<self, cfg, rd, calc_idx, d_hum, call, entry, hist>>
wakeup_write ==
    /\ At("wakeup")
    /\ ~self.wakeup
    /\ \E res \in {"ok", "IOError"} :
         i2c' = [I2cFrame("write_byte_data", 0, <<0>>, 0, 0) EXCEPT
                    !.trace = <<BusEv("write_byte_data", 0, <<0>>, res)>>,
                    !.status = "direct"]
    /\ buslog' = buslog \o <<BusEv("write_byte_data", 0, <<0>>, "ignored"), Sleep(wait_wakeup)>>
    /\ self' = [self EXCEPT !.wakeup = TRUE]
    /\ Return(None)
    /\ UNCHANGED <<cfg, rd, calc_idx, d_hum, call, entry, hist>>

\* set_write_mode(): self._write_byte_data(0x00, 0x00)
set_write_mode_call ==
    /\ At("set_write_mode")
    /\ Goto(<<"i2c", "set_write_mode_1">>)
    /\ i2c' = write_byte_data(0, 0)
    /\ UNCHANGED <<self, cfg, rd, calc_idx, d_hum, ret, call, entry, result, buslog, hist>>

\* set_write_mode(): the write returned; flag, usleep
set_write_mode_done ==
    /\ At("set_write_mode_1")
    /\ self' = [self EXCEPT !.write_mode = TRUE]
    /\ buslog' = Append(buslog, Sleep(wait_writemode))
    /\ Return(None)
    /\ i2c' = NoI2c
    /\ UNCHANGED <<cfg, rd, calc_idx, d_hum, call, entry, hist>>

\* measure(): self.wakeup()
measure_wakeup_skipped ==
    /\ At("measure")
    /\ Goto(<<"measure_1">>)
    /\ UNCHANGED <<self, cfg, rd, i2c, calc_idx, d_hum, ret, call, entry, result, buslog, hist>>
measure_wakeup ==
    /\ At("measure")
    /\ Goto(<<"wakeup", "measure_1">>)
    /\ UNCHANGED <<self, cfg, rd, i2c, calc_idx, d_hum, ret, call, entry, result, buslog, hist>>

\* measure(): if not self._write_mode: self.set_write_mode()
measure_set_mode ==
    /\ At("measure_1")
    /\ ~self.write_mode
    /\ Goto(<<"set_write_mode", "measure_2">>)
    /\ UNCHANGED <<self, cfg, rd, i2c, calc_idx, d_hum, ret, call, entry, result, buslog, hist>>

\* measure(): self._write_i2c_block_data(0x03, [0x00, 0x04])
measure_command ==
    /\ \/ At("measure_2")
       \/ At("measure_1") /\ self.write_mode
    /\ Goto(<<"i2c", "measure_3">>)
    /\ i2c' = write_i2c_block_data(3, <<0, 4>>)
    /\ UNCHANGED <<self, cfg, rd, calc_idx, d_hum, ret, call, entry, result, buslog, hist>>

\* measure(): the command was written; flag, usleep, drop _raw_data and properties
measure_done_keepprops ==
    /\ At("measure_3")
    /\ self' = [self EXCEPT !.measured = TRUE, !.raw_data = None]
    /\ buslog' = Append(buslog, Sleep(wait_readmode))
    /\ Return(None)
    /\ i2c' = NoI2c
    /\ UNCHANGED <<cfg, rd, calc_idx, d_hum, call, entry, hist>>
measure_done_keepraw ==
    /\ At("measure_3")
    /\ self' = del_properties([self EXCEPT !.measured = TRUE])
    /\ buslog' = Append(buslog, Sleep(wait_readmode))
    /\ Return(None)
    /\ i2c' = NoI2c
    /\ UNCHANGED <<cfg, rd, calc_idx, d_hum, call, entry, hist>>
measure_done ==
    /\ At("measure_3")
    /\ self' = del_properties([self EXCEPT !.measured = TRUE, !.raw_data = None])
    /\ buslog' = Append(buslog, Sleep(wait_readmode))
    /\ Return(None)
    /\ i2c' = NoI2c
    /\ UNCHANGED <<cfg, rd, calc_idx, d_hum, call, entry, hist>>

----------------------------------------------------------------------------
(* read.                                                                   *)

\* a frame of read(check_err, check_crc, retry_num, retry_wait) at cnt = 0
ReadFrame(ce, cc, num, wait) ==
    [check_err |-> ce, check_crc |-> cc, retry_num |-> num, retry_wait |-> wait, cnt |-> 0]

\* lines 171-175: the first enabled check that fails decides the exception
Validate_crcfirst(raw, ce, cc) ==
    IF cc /\ check_crc(raw).kind # "ok" THEN check_crc(raw)
    ELSE IF ce /\ check_err(raw).kind # "ok" THEN check_err(raw)
    ELSE Outcome("ok", <<>>)
Validate(raw, ce, cc) ==
    IF ce /\ check_err(raw).kind # "ok" THEN check_err(raw)
    ELSE IF cc /\ check_crc(raw).kind # "ok" THEN check_crc(raw)
    ELSE Outcome("ok", <<>>)

\* lines 163-164: if not self._measured: self.measure()
read_measure_always ==
    /\ At("read")
    /\ Goto(<<"measure", "read_1">>)
    /\ UNCHANGED <<self, cfg, rd, i2c, calc_idx, d_hum, ret, call, entry, result, buslog, hist>>
read_measure ==
    /\ At("read")
    /\ ~self.measured
    /\ Goto(<<"measure", "read_1">>)
    /\ UNCHANGED <<self, cfg, rd, i2c, calc_idx, d_hum, ret, call, entry, result, buslog, hist>>

\* the test of line 165 is reached
AtRawTest_unmeasured == At("read_1") \/ At("read")
AtRawTest == At("read_1") \/ (At("read") /\ self.measured)

\* lines 165, 187: _raw_data is present: return it
read_cached ==
    /\ AtRawTest
    /\ self.raw_data # None
    /\ Return(self.raw_data)
    /\ rd' = NoRead
    /\ UNCHANGED <<self, cfg, i2c, calc_idx, d_hum, call, entry, buslog, hist>>

\* lines 165-166: _raw_data is absent: self._read_i2c_block_data(0x00, 8)
read_fetch ==
    /\ AtRawTest
    /\ self.raw_data = None
    /\ Goto(<<"i2c", "read_2">>)
    /\ i2c' = read_i2c_block_data(0, 8)
    /\ UNCHANGED <<self, cfg, rd, calc_idx, d_hum, ret, call, entry, result, buslog, hist>>

\* lines 166-170: store the data, drop the properties, clear both flags
read_store_keepflags ==
    /\ At("read_2")
    /\ self' = del_properties([self EXCEPT !.raw_data = ret])
    /\ hist' = [hist EXCEPT !.only_bad_crc =
                   @ /\ check_err(ret).kind = "ok" /\ check_crc(ret).kind # "ok"]
    /\ Goto(<<"read_3">>)
    /\ i2c' = NoI2c
    /\ UNCHANGED <<cfg, rd, calc_idx, d_hum, ret, call, entry, result, buslog>>
read_store ==
    /\ At("read_2")
    /\ self' = del_properties([self EXCEPT !.raw_data = ret, !.wakeup = FALSE,
                                           !.write_mode = FALSE])
    /\ hist' = [hist EXCEPT !.only_bad_crc =
                   @ /\ check_err(ret).kind = "ok" /\ check_crc(ret).kind # "ok"]
    /\ Goto(<<"read_3">>)
    /\ i2c' = NoI2c
    /\ UNCHANGED <<cfg, rd, calc_idx, d_hum, ret, call, entry, result, buslog>>

\* outcome of the checks of the active read() on the stored data
Checked == Validate(self.raw_data, rd.check_err, rd.check_crc)

\* lines 171-175, 187: no check raised: return self._raw_data
read_valid ==
    /\ At("read_3")
    /\ Checked.kind = "ok"
    /\ Return(self.raw_data)
    /\ rd' = NoRead
    /\ UNCHANGED <<self, cfg, i2c, calc_idx, d_hum, call, entry, buslog, hist>>

\* lines 176-183: AM232xError with cnt < retry_num: next cycle
read_retry_nocount ==
    /\ At("read_3")
    /\ Checked.kind \in AM232xError
    /\ rd.cnt < rd.retry_num
    /\ self' = [self EXCEPT !.measured = FALSE]
    /\ buslog' = Append(buslog, Sleep(rd.retry_wait))
    /\ Goto(<<"read">>)
    /\ UNCHANGED <<cfg, rd, i2c, calc_idx, d_hum, ret, call, entry, result, hist>>
read_retry_nosleep ==
    /\ At("read_3")
    /\ Checked.kind \in AM232xError
    /\ rd.cnt < rd.retry_num
    /\ self' = [self EXCEPT !.measured = FALSE]
    /\ rd' = [rd EXCEPT !.cnt = @ + 1]
    /\ Goto(<<"read">>)
    /\ UNCHANGED <<cfg, i2c, calc_idx, d_hum, ret, call, entry, result, buslog, hist>>
read_retry ==
    /\ At("read_3")
    /\ Checked.kind \in AM232xError
    /\ rd.cnt < rd.retry_num
    /\ self' = [self EXCEPT !.measured = FALSE]
    /\ rd' = [rd EXCEPT !.cnt = @ + 1]
    /\ buslog' = Append(buslog, Sleep(rd.retry_wait))
    /\ Goto(<<"read">>)
    /\ UNCHANGED <<cfg, i2c, calc_idx, d_hum, ret, call, entry, result, hist>>

\* lines 184-185: the budget is spent (or the exception is not caught): raise e
read_raise ==
    /\ At("read_3")
    /\ Checked.kind # "ok"
    /\ ~(Checked.kind \in AM232xError /\ rd.cnt < rd.retry_num)
    /\ Raise(Checked.kind, Checked.val)
    /\ UNCHANGED <<self, cfg, i2c, call, entry, buslog, hist>>

----------------------------------------------------------------------------
(* _calc and the three properties.                                         *)

\* (raw[high_idx] << 8 | raw[low_idx]) / 10.0, in tenths; indices are 0-based
calc_value_swapped(raw, high_idx, low_idx) == Shl8Or(raw[low_idx + 1], raw[high_idx + 1])
calc_value(raw, high_idx, low_idx) == Shl8Or(raw[high_idx + 1], raw[low_idx + 1])

\* 0.81 * temp + 0.01 * hum * (0.99 * temp - 14.3) + 46.3 for temp and hum in
\* tenths, i.e. (99*hum*temp + 81000*temp - 14300*hum + 46300000) / 10^6, as
\* <<q, r>> with value q + r / 10^6 and 0 <= r < 10^6.  The products are split
\* so that no intermediate value leaves 32 bits.
discomfort_value(hum, temp) ==
    LET Million == 1000000
        u  == 99 * (hum \div 256) * temp
        v  == 99 * (hum % 256) * temp
        w  == 81 * temp
        z  == 143 * hum
        q0 == 256 * (u \div Million) + ((256 * (u % Million)) \div Million)
                + (v \div Million) + (w \div 1000) - (z \div 10000) + 46
        r0 == ((256 * (u % Million)) % Million) + (v % Million)
                + ((w % 1000) * 1000) - ((z % 10000) * 100) + 300000
    IN  <<q0 + (r0 \div Million), r0 % Million>>

\* _calc(): _raw_data is absent: self.read()
calc_read ==
    /\ At("calc")
    /\ self.raw_data = None
    /\ Goto(<<"read", "calc_1">>)
    /\ rd' = ReadFrame(TRUE, TRUE, default_read_retry_num, default_read_retry_wait)
    /\ UNCHANGED <<self, cfg, i2c, calc_idx, d_hum, ret, call, entry, result, buslog, hist>>

\* _calc(): compute from self._raw_data
calc_return ==
    /\ \/ At("calc_1")
       \/ At("calc") /\ self.raw_data # None
    /\ Return(<<calc_value(self.raw_data, calc_idx[1], calc_idx[2])>>)
    /\ calc_idx' = <<>>
    /\ UNCHANGED <<self, cfg, rd, i2c, d_hum, call, entry, buslog, hist>>

\* humidity: cached
humidity_cached ==
    /\ At("humidity")
    /\ self.humidity # None
    /\ Return(self.humidity)
    /\ UNCHANGED <<self, cfg, rd, i2c, calc_idx, d_hum, call, entry, buslog, hist>>

\* humidity: self._calc(2, 3)
humidity_calc ==
    /\ At("humidity")
    /\ self.humidity = None
    /\ Goto(<<"calc", "humidity_1">>)
    /\ calc_idx' = <<2, 3>>
    /\ UNCHANGED <<self, cfg, rd, i2c, d_hum, ret, call, entry, result, buslog, hist>>

\* humidity: store and return the computed value
humidity_store ==
    /\ At("humidity_1")
    /\ self' = [self EXCEPT !.humidity = ret]
    /\ Return(ret)
    /\ UNCHANGED <<cfg, rd, i2c, calc_idx, d_hum, call, entry, buslog, hist>>

\* temperature: cached
temperature_cached ==
    /\ At("temperature")
    /\ self.temperature # None
    /\ Return(self.temperature)
    /\ UNCHANGED <<self, cfg, rd, i2c, calc_idx, d_hum, call, entry, buslog, hist>>

\* temperature: self._calc(4, 5)
temperature_calc ==
    /\ At("temperature")
    /\ self.temperature = None
    /\ Goto(<<"calc", "temperature_1">>)
    /\ calc_idx' = <<4, 5>>
    /\ UNCHANGED <<self, cfg, rd, i2c, d_hum, ret, call, entry, result, buslog, hist>>

\* temperature: store and return the computed value
temperature_store ==
    /\ At("temperature_1")
    /\ self' = [self EXCEPT !.temperature = ret]
    /\ Return(ret)
    /\ UNCHANGED <<cfg, rd, i2c, calc_idx, d_hum, call, entry, buslog, hist>>

\* discomfort: cached
discomfort_cached ==
    /\ At("discomfort")
    /\ self.discomfort # None
    /\ Return(self.discomfort)
    /\ UNCHANGED <<self, cfg, rd, i2c, calc_idx, d_hum, call, entry, buslog, hist>>

\* discomfort: hum = self.humidity
discomfort_humidity ==
    /\ At("discomfort")
    /\ self.discomfort = None
    /\ Goto(<<"humidity", "discomfort_1">>)
    /\ UNCHANGED <<self, cfg, rd, i2c, calc_idx, d_hum, ret, call, entry, result, buslog, hist>>

\* discomfort: temp = self.temperature
discomfort_temperature ==
    /\ At("discomfort_1")
    /\ d_hum' = ret
    /\ Goto(<<"temperature", "discomfort_2">>)
    /\ UNCHANGED <<self, cfg, rd, i2c, calc_idx, ret, call, entry, result, buslog, hist>>

\* discomfort: store and return the index
discomfort_store ==
    /\ At("discomfort_2")
    /\ self' = [self EXCEPT !.discomfort = discomfort_value(d_hum[1], ret[1])]
    /\ Return(discomfort_value(d_hum[1], ret[1]))
    /\ d_hum' = None
    /\ UNCHANGED <<cfg, rd, i2c, calc_idx, call, entry, buslog, hist>>

----------------------------------------------------------------------------
(* The caller: public operations invoked between calls.                    *)

Op(name) == [NoCall EXCEPT !.op = name]

call_wakeup == Begin(Op("wakeup"), "wakeup") /\ rd' = NoRead
call_set_write_mode == Begin(Op("set_write_mode"), "set_write_mode") /\ rd' = NoRead
call_measure == Begin(Op("measure"), "measure") /\ rd' = NoRead
call_humidity == Begin(Op("humidity"), "humidity") /\ rd' = NoRead
call_temperature == Begin(Op("temperature"), "temperature") /\ rd' = NoRead
call_discomfort == Begin(Op("discomfort"), "discomfort") /\ rd' = NoRead

call_read ==
    \E ce \in BOOLEAN, cc \in BOOLEAN, num \in 0..MaxReadRetry :
        /\ Begin([op |-> "read", check_err |-> ce, check_crc |-> cc, retry_num |-> num,
                  retry_wait |-> default_read_retry_wait], "read")
        /\ rd' = ReadFrame(ce, cc, num, default_read_retry_wait)

Next ==
    \/ call_wakeup \/ call_set_write_mode \/ call_measure \/ call_read
    \/ call_humidity \/ call_temperature \/ call_discomfort
    \/ i2c_return \/ i2c_retry \/ i2c_raise
    \/ wakeup_noop \/ wakeup_write
    \/ set_write_mode_call \/ set_write_mode_done
    \/ measure_wakeup \/ measure_set_mode \/ measure_command \/ measure_done
    \/ read_measure \/ read_cached \/ read_fetch \/ read_store
    \/ read_valid \/ read_retry \/ read_raise
    \/ calc_read \/ calc_return
    \/ humidity_cached \/ humidity_calc \/ humidity_store
    \/ temperature_cached \/ temperature_calc \/ temperature_store
    \/ discomfort_cached \/ discomfort_humidity \/ discomfort_temperature
    \/ discomfort_store

Spec == Init /\ [][Next]_vars

\* the public operation has finished
Done == stack = <<>> /\ result.kind # "none"

TypeOK ==
    /\ self.wakeup \in BOOLEAN /\ self.write_mode \in BOOLEAN /\ self.measured \in BOOLEAN
    /\ self.raw_data \in Readings \cup {None}
    /\ rd.cnt \in 0..default_read_retry_num
    /\ i2c.cnt \in 0..(MaxRetryNum + 1)

----------------------------------------------------------------------------
(* check_err() and check_crc() called on their own, for arbitrary readings. *)

TestPrefixes ==
    { <<3, 4, b2, b3, b4, b5>> : b2 \in {0, 127, 128, 255}, b3 \in {0, 38},
                                 b4 \in {0, 128}, b5 \in {1, 231} }
      \cup { <<0, 0, 0, 0, 0, 0>>, <<255, 255, 255, 255, 255, 255>>,
             <<3, 4, 1, 2, 0, 200>> }

\* each prefix with its CRC little-endian, big-endian, off by one and zero
TestReadings ==
    UNION { { WithCrc(p), WithBadCrc(p),
              p \o <<WithCrc(p)[8], WithCrc(p)[7]>>,
              p \o <<0, 0>> } : p \in TestPrefixes }

InitChecks ==
    /\ \E r \in TestReadings :
         self = [wakeup |-> FALSE, write_mode |-> FALSE, measured |-> TRUE,
                 raw_data |-> r, humidity |-> None, temperature |-> None,
                 discomfort |-> None]
    /\ cfg = [retry_wait |-> default_retry_wait, retry_num |-> 0]
    /\ stack = <<>>
    /\ rd = NoRead
    /\ i2c = NoI2c
    /\ calc_idx = <<>>
    /\ d_hum = None
    /\ ret = None
    /\ call = NoCall
    /\ entry = Snapshot(self)
    /\ result = NoResult
    /\ buslog = <<>>
    /\ hist = [unchecked |-> FALSE, prev_wakeup |-> FALSE, prev_ops |-> 0,
               only_bad_crc |-> TRUE, pending |-> FALSE]

\* the caller invokes check_err()
call_check_err ==
    /\ stack = <<>>
    /\ call' = Op("check_err")
    /\ result' = check_err(self.raw_data)
    /\ UNCHANGED <<self, cfg, stack, rd, i2c, calc_idx, d_hum, ret, entry, buslog, hist>>

\* the caller invokes check_crc()
call_check_crc ==
    /\ stack = <<>>
    /\ call' = Op("check_crc")
    /\ result' = check_crc(self.raw_data)
    /\ UNCHANGED <<self, cfg, stack, rd, i2c, calc_idx, d_hum, ret, entry, buslog, hist>>

NextChecks == call_check_err \/ call_check_crc

SpecChecks == InitChecks /\ [][NextChecks]_vars

----------------------------------------------------------------------------
(* Properties.                                                             *)

Accessors == {"humidity", "temperature", "discomfort"}

\* the outer retry limit of the read() the operation runs
OuterRetryNum == IF call.op = "read" THEN call.retry_num ELSE default_read_retry_num
OuterRetryWait == IF call.op = "read" THEN call.retry_wait ELSE default_read_retry_wait

WakeWrite == BusEv("write_byte_data", 0, <<0>>, "ignored")
ModeWrite == BusEv("write_byte_data", 0, <<0>>, "ok")
MeasureCommand == BusEv("write_i2c_block_data", 3, <<0, 4>>, "ok")
BlockRead == BusEv("read_i2c_block_data", 0, <<8>>, "ok")

\* C1: a read() with both checks enabled that returns, returns 8 bytes with
\* byte[2] < 0x80 and bytes 6-7 equal to the CRC of bytes 0-5 (stated for
\* sessions in which no read() ever had a check disabled).
C1_ReadReturnsValidated ==
    (Done /\ call.op = "read" /\ call.check_err /\ call.check_crc
          /\ ~hist.unchecked /\ result.kind = "ok")
        => (Len(result.val) = 8 /\ Valid(result.val))

\* C2: while validation has never been disabled, _calc computes a value only
\* from a raw reading that passes the status check and the checksum check.
AtCalcCompute == At("calc_1") \/ (At("calc") /\ self.raw_data # None)
C2_CalcOnlyFromValidated ==
    (~hist.unchecked /\ AtCalcCompute) => Valid(self.raw_data)

\* C3: an accessor called on a session with no cached reading and all flags
\* false issues its bus calls in the order wake write, write-mode write,
\* measure command, 8-byte read (again in that order in every further
\* cycle), and returns a value only after the reading read last has passed
\* both checks.
EntryFresh == ~entry.wakeup /\ ~entry.write_mode /\ ~entry.measured /\ ~entry.has_raw
CycleOps == <<WakeWrite, ModeWrite, MeasureCommand, BlockRead>>
SameCommand(e, f) == e.func = f.func /\ e.reg = f.reg /\ e.arg = f.arg
C3_AccessorBusOrder ==
    (call.op \in Accessors /\ EntryFresh) =>
        LET ops == BusOps(buslog) IN
        /\ \A i \in 1..Len(ops) :
             /\ SameCommand(ops[i], CycleOps[((i - 1) % 4) + 1])
             /\ \/ ops[i].res = CycleOps[((i - 1) % 4) + 1].res
                \/ i = Len(ops) /\ ops[i].res = "IOError" /\ result.kind = "IOError"
        /\ (Done /\ result.kind = "ok") =>
             /\ Len(ops) >= 4
             /\ Len(ops) % 4 = 0
             /\ ops[Len(ops)] = BlockRead
             /\ Valid(self.raw_data)
C3_Witness ==
    /\ Done /\ call.op \in Accessors /\ EntryFresh /\ result.kind = "ok"
    /\ BusOps(buslog) = CycleOps

\* C4: a read() that starts without a cached reading and is only ever handed
\* readings with a wrong checksum (status < 0x80, checksum check enabled, no
\* transport error) ends with the checksum error after exactly N + 1 bus
\* reads, N the outer retry limit; after the first bus read the log is N
\* times: outer retry wait, wake write, write-mode write, measure command,
\* 8-byte read, with the protocol waits in between.
RetryCycle(w) ==
    <<Sleep(w), WakeWrite, Sleep(wait_wakeup), ModeWrite, Sleep(wait_writemode),
      MeasureCommand, Sleep(wait_readmode), BlockRead>>
RECURSIVE Repeat(_, _)
Repeat(seq, n) == IF n = 0 THEN <<>> ELSE seq \o Repeat(seq, n - 1)
FirstRead(log) == CHOOSE i \in 1..Len(log) : log[i] = BlockRead /\ \A j \in 1..(i - 1) : log[j] # BlockRead
OnlyBadCrcRun ==
    /\ Done
    /\ call.op \in {"read"} \cup Accessors
    /\ call.check_crc
    /\ ~entry.has_raw
    /\ hist.only_bad_crc
    /\ result.kind # "IOError"
C4_BadCrcExhaustsRetries ==
    OnlyBadCrcRun =>
        /\ result.kind = "AM232xCrcCheckError"
        /\ result.val = <<rcv_crcsum(self.raw_data), clc_crcsum(self.raw_data)>>
        /\ Len(SelectSeq(buslog, LAMBDA e : e = BlockRead)) = OuterRetryNum + 1
        /\ SubSeq(buslog, FirstRead(buslog) + 1, Len(buslog))
             = Repeat(RetryCycle(OuterRetryWait), OuterRetryNum)
C4_Witness ==
    /\ OnlyBadCrcRun /\ call.op = "read" /\ call.retry_num = MaxReadRetry
    /\ result.kind = "AM232xCrcCheckError"

\* C5: a call through _func_i2c_retry with retry count N invokes the
\* transport at most N + 1 times; every failed attempt but the last allowed
\* one is followed by a wait of the configured per-call duration before the
\* next attempt; the error propagates exactly after N + 1 failures; a
\* successful attempt is the last one.
ConfiguredWait(func) ==
    IF func = "read_i2c_block_data" THEN read_retry_wait ELSE cfg.retry_wait
C5_BusRetry ==
    (i2c.status \in {"running", "returned", "raised"}) =>
        LET fail == I2cEv("IOError")
            tried == Repeat(<<fail, Sleep(ConfiguredWait(i2c.func))>>, i2c.cnt)
        IN
        /\ i2c.retry_num = cfg.retry_num
        /\ i2c.cnt <= i2c.retry_num
        /\ i2c.status = "running" => i2c.trace = tried
        /\ i2c.status = "returned" => i2c.trace = Append(tried, I2cEv("ok"))
        /\ i2c.status = "raised" =>
             /\ i2c.cnt = i2c.retry_num
             /\ i2c.trace = Append(tried, fail)
             /\ Len(BusOps(i2c.trace)) = i2c.retry_num + 1
             /\ Done /\ result.kind = "IOError"
C5_Witness ==
    /\ i2c.status = "raised" /\ i2c.retry_num = MaxRetryNum
    /\ i2c.func = "read_i2c_block_data"

\* C6: wakeup() always returns normally with the awake flag set and, when it
\* was called while not awake, after exactly one wake write whatever that
\* write did; a transport error of any other bus call ends the operation
\* with IOError once the bus-level retries are spent, and an operation that
\* ends without IOError had no bus call give up.
C6_WakeupSwallowsOnly ==
    /\ (Done /\ call.op = "wakeup") =>
         /\ result.kind = "ok"
         /\ self.wakeup
         /\ entry.wakeup => buslog = <<>>
         /\ ~entry.wakeup =>
              /\ buslog = <<WakeWrite, Sleep(wait_wakeup)>>
              /\ i2c.status = "direct"
              /\ Len(i2c.trace) = 1
    /\ i2c.status = "direct" => (self.wakeup /\ result.kind # "IOError")
    /\ i2c.status = "raised" =>
         (Done /\ result.kind = "IOError" /\ i2c.cnt = i2c.retry_num)
    /\ (Done /\ result.kind # "IOError") =>
         \A i \in 1..Len(buslog) : buslog[i].res # "IOError"
C6_Witness ==
    /\ Done /\ call.op = "wakeup" /\ ~entry.wakeup /\ result.kind = "ok"
    /\ i2c.status = "direct" /\ i2c.trace[1].res = "IOError"

\* C7: a wakeup() that directly follows a wakeup() called while not awake
\* makes no bus call and changes no flag and no cached attribute, and the
\* first of the two made exactly one bus call, the wake write.
SecondWakeup == call.op = "wakeup" /\ hist.prev_wakeup
C7_WakeupTwiceWritesOnce ==
    /\ [](SecondWakeup => (hist.prev_ops = 1 /\ buslog = <<>> /\ entry.wakeup))
    /\ [][SecondWakeup => (self' = self /\ buslog' = buslog)]_vars
C7_Witness == Done /\ SecondWakeup /\ result.kind = "ok"

\* C8: when measure() has returned normally no raw reading and no derived
\* value is cached; a read() or accessor called in that state (measured, no
\* raw reading) that returns has made an 8-byte bus read in this call and
\* returns what that read stored.
C8_MeasureInvalidates ==
    /\ (Done /\ call.op = "measure" /\ result.kind = "ok") =>
         /\ self.raw_data = None
         /\ self.humidity = None /\ self.temperature = None /\ self.discomfort = None
         /\ self.measured
    /\ (Done /\ call.op \in {"read"} \cup Accessors /\ entry.measured /\ ~entry.has_raw
             /\ result.kind = "ok") =>
         /\ \E i \in 1..Len(buslog) : buslog[i] = BlockRead
         /\ self.raw_data # None
         /\ call.op = "read" => result.val = self.raw_data
C8_Witness ==
    /\ Done /\ call.op = "read" /\ result.kind = "ok"
    /\ entry.wakeup /\ entry.write_mode /\ entry.measured /\ ~entry.has_raw
    /\ BusOps(buslog) = <<BlockRead>>

\* C9: check_err() raises ReceiveAM232xDataError carrying byte[2] exactly
\* when byte[2] >= 0x80 and passes otherwise.
C9_StatusCheck ==
    (Done /\ call.op = "check_err") =>
        LET code == self.raw_data[3] IN
        /\ code >= 128 => result = Outcome("ReceiveAM232xDataError", <<code>>)
        /\ code < 128 => result = Outcome("ok", <<>>)
C9_Witness ==
    Done /\ call.op = "check_err" /\ self.raw_data[3] = 128
         /\ result.kind = "ReceiveAM232xDataError"

\* C10: check_crc() computes over bytes 0..5 the value of the reference
\* CRC-16/MODBUS, compares it with byte[7] << 8 | byte[6] and raises
\* AM232xCrcCheckError carrying both values exactly when they differ.
C10_CrcCheck ==
    /\ RefCrc16Modbus(<<49, 50, 51, 52, 53, 54, 55, 56, 57>>) = 19255
    /\ (Done /\ call.op = "check_crc") =>
         LET ref == RefCrc16Modbus(SubSeq(self.raw_data, 1, 6))
             rcv == self.raw_data[8] * 256 + self.raw_data[7]
         IN
         /\ rcv # ref => result = Outcome("AM232xCrcCheckError", <<rcv, ref>>)
         /\ rcv = ref => result = Outcome("ok", <<>>)
C10_Witness ==
    Done /\ call.op = "check_crc" /\ result.kind = "AM232xCrcCheckError"
         /\ self.raw_data[8] # 0 /\ self.raw_data[3] = 255


\* C11: a cached humidity, temperature or discomfort is the value computed
\* from the raw reading cached now, and a step that deletes or replaces the
\* raw reading leaves none of the three cached.
NoDerived(s) == s.humidity = None /\ s.temperature = None /\ s.discomfort = None
C11_DerivedMatchRaw ==
    /\ [](self.humidity # None =>
            /\ self.raw_data # None
            /\ self.humidity = <<self.raw_data[3] * 256 + self.raw_data[4]>>)
    /\ [](self.temperature # None =>
            /\ self.raw_data # None
            /\ self.temperature = <<self.raw_data[5] * 256 + self.raw_data[6]>>)
    /\ [](self.discomfort # None =>
            /\ self.raw_data # None
            /\ self.discomfort = discomfort_value(self.raw_data[3] * 256 + self.raw_data[4],
                                                  self.raw_data[5] * 256 + self.raw_data[6]))
    /\ [][self.raw_data' # self.raw_data => NoDerived(self')]_vars
C11_Witness ==
    /\ Done /\ call.op = "discomfort" /\ result.kind = "ok"
    /\ self.raw_data # None
    /\ self.humidity # None /\ self.temperature # None /\ self.discomfort = result.val

\* C12: for a raw reading that passes both checks the humidity accessor
\* returns byte[2] * 256 + byte[3] tenths and the temperature accessor
\* byte[4] * 256 + byte[5] tenths.
C12_TenthsOfBytePairs ==
    (Done /\ result.kind = "ok" /\ self.raw_data # None /\ Valid(self.raw_data)) =>
        /\ call.op = "humidity" =>
             result.val = <<self.raw_data[3] * 256 + self.raw_data[4]>>
        /\ call.op = "temperature" =>
             result.val = <<self.raw_data[5] * 256 + self.raw_data[6]>>
C12_Witness ==
    /\ Done /\ call.op = "humidity" /\ result = Outcome("ok", <<550>>)
    /\ self.raw_data = WithCrc(<<3, 4, 2, 38, 0, 231>>)


\* C13: when the 8-byte bus read of read() gives up, the operation ends there
\* with the transport's IOError: the bus-level retries were all used, the
\* failed read is the last entry of the log and the only failed bus call in
\* it, and no raw reading is cached.
ReadGaveUp == i2c.status = "raised" /\ i2c.func = "read_i2c_block_data"
C13_ReadTransportError ==
    ReadGaveUp =>
        /\ Done
        /\ result = Outcome("IOError", <<>>)
        /\ i2c.cnt = cfg.retry_num
        /\ self.raw_data = None
        /\ rd = NoRead
        /\ buslog[Len(buslog)] = BusEv("read_i2c_block_data", 0, <<8>>, "IOError")
        /\ Len(SelectSeq(buslog, LAMBDA e : e.res = "IOError")) = 1
C13_Witness ==
    /\ ReadGaveUp /\ Done /\ call.op = "read" /\ call.retry_num = MaxReadRetry
    /\ Len(SelectSeq(buslog, LAMBDA e : e = BlockRead)) = 1


\* C14: when read() has stored the data of a bus read, the awake flag and the
\* write-mode flag are false before validation starts; either flag becomes
\* true again only in the step that follows its write on the bus, and the
\* measure command is issued only with both flags true, so that between a
\* bus read and a later measure command both writes are issued again.
MeasureIssued ==
    /\ i2c'.func = "write_i2c_block_data" /\ i2c'.status = "running"
    /\ i2c.func # "write_i2c_block_data"
C14_ReadClearsFlags ==
    /\ [](At("read_3") => (~self.wakeup /\ ~self.write_mode))
    /\ [](\A i \in 1..Len(buslog) : \A j \in i..Len(buslog) :
            (buslog[i] = BlockRead /\ buslog[j].func = "write_i2c_block_data") =>
                /\ \E k \in i..j : buslog[k] = WakeWrite
                /\ \E k \in i..j : buslog[k] = ModeWrite)
    /\ [][(self'.wakeup /\ ~self.wakeup) =>
            buslog' = buslog \o <<WakeWrite, Sleep(wait_wakeup)>>]_vars
    /\ [][(self'.write_mode /\ ~self.write_mode) =>
            /\ buslog # <<>> /\ buslog[Len(buslog)] = ModeWrite
            /\ buslog' = Append(buslog, Sleep(wait_writemode))]_vars
    /\ [][MeasureIssued => (self.wakeup /\ self.write_mode)]_vars
C14_Witness ==
    /\ At("read_3") /\ rd.cnt = 1 /\ Checked.kind # "ok"
    /\ entry.wakeup /\ entry.write_mode
    /\ Len(SelectSeq(buslog, LAMBDA e : e = WakeWrite)) = 1
    /\ Len(SelectSeq(buslog, LAMBDA e : e = ModeWrite)) = 1


\* C15 as stated: between operations the write-mode flag is true only while
\* the awake flag is true.
C15_ModeOnlyWhileAwake ==
    stack = <<>> => (self.write_mode => self.wakeup)

\* C15 amended: outside a direct set_write_mode() call the write-mode write
\* is issued only with the awake flag true, and after the wake write of its
\* cycle unless the session was awake already; the state "write-mode set,
\* not awake" is entered only by a direct set_write_mode() call made while
\* not awake.
ModeIssued ==
    /\ i2c'.func = "write_byte_data" /\ i2c'.status = "running"
    /\ i2c.status # "running"
ModeNotAwake(s) == s.write_mode /\ ~s.wakeup
IsModeWrite(e) == e.func = "write_byte_data" /\ e.res # "ignored"
C15_ModeAfterWakeInMeasure ==
    /\ [][(ModeIssued /\ call.op # "set_write_mode") => self.wakeup]_vars
    /\ [][(ModeNotAwake(self') /\ ~ModeNotAwake(self)) =>
            (call.op = "set_write_mode" /\ ~entry.wakeup)]_vars
    /\ [](call.op # "set_write_mode" =>
            \A j \in 1..Len(buslog) : IsModeWrite(buslog[j]) =>
                \/ \E i \in 1..(j - 1) :
                     /\ buslog[i] = WakeWrite
                     /\ \A k \in i..j : buslog[k] # BlockRead
                \/ entry.wakeup /\ \A k \in 1..j : buslog[k] # BlockRead)
C15_Witness ==
    /\ Done /\ call.op = "measure" /\ result.kind = "ok"
    /\ ~entry.wakeup /\ ~entry.write_mode
    /\ BusOps(buslog) = <<WakeWrite, ModeWrite, MeasureCommand>>


\* C16: for a reading that passes both checks the temperature accessor
\* returns minus ((byte[4] & 0x7F) << 8 | byte[5]) tenths when the top bit of
\* byte 4 is set, and (byte[4] << 8 | byte[5]) tenths otherwise.
SignedTenths(hi, lo) == IF hi >= 128 THEN 0 - ((hi - 128) * 256 + lo) ELSE hi * 256 + lo
C16_TemperatureSigned ==
    (Done /\ call.op = "temperature" /\ result.kind = "ok"
          /\ self.raw_data # None /\ Valid(self.raw_data)) =>
        result.val = <<SignedTenths(self.raw_data[5], self.raw_data[6])>>


\* C17: a read() or an accessor called while a raw reading is cached and the
\* measured flag is set (the state read() leaves when it returns) makes no
\* bus call and takes no sleep, changes no flag, keeps the raw reading and
\* every derived value already cached, and returns the cached reading or
\* the value computed from it.
ServedFromCache ==
    /\ call.op \in {"read"} \cup Accessors
    /\ entry.has_raw /\ entry.measured
KeepsCached(old, new) == old # None => new = old
C17_CachedReadFrame ==
    /\ [](ServedFromCache => (buslog = <<>> /\ i2c = NoI2c))
    /\ [][(ServedFromCache /\ stack # <<>>) =>
            /\ Snapshot(self') = Snapshot(self)
            /\ self'.raw_data = self.raw_data
            /\ KeepsCached(self.humidity, self'.humidity)
            /\ KeepsCached(self.temperature, self'.temperature)
            /\ KeepsCached(self.discomfort, self'.discomfort)]_vars
    /\ []((ServedFromCache /\ Done) =>
            LET hum == self.raw_data[3] * 256 + self.raw_data[4]
                temp == self.raw_data[5] * 256 + self.raw_data[6]
            IN
            /\ result.kind = "ok"
            /\ call.op = "read" => result.val = self.raw_data
            /\ call.op = "humidity" => result.val = <<hum>>
            /\ call.op = "temperature" => result.val = <<temp>>
            /\ call.op = "discomfort" => result.val = discomfort_value(hum, temp))
C17_Witness ==
    /\ ServedFromCache /\ Done /\ call.op = "discomfort"
    /\ self.humidity # None /\ self.temperature # None
    /\ ~self.wakeup /\ ~self.write_mode /\ Valid(self.raw_data)


\* C18: an operation that runs read() ends, by returning or raising: every
\* statement it executes lowers a natural-number bound on the statements
\* left, which is zero only when the operation has ended; it makes at
\* most retry_num + 1 measure commands and at most retry_num + 1 8-byte bus
\* reads, retry_num the outer limit, and no bus call makes more than the
\* bus-level retry count plus one attempts.
RunsRead == call.op \in {"read"} \cup Accessors
IsBlockRead(e) == e.func = "read_i2c_block_data"
IsMeasureCommand(e) == e.func = "write_i2c_block_data"
\* statements left in a frame that is at the given label, callees included
StepsLeft(label) ==
    LET bus == cfg.retry_num + 1
        meas == 2 * bus + 7
        cycle == meas + bus + 4
        left == rd.retry_num - rd.cnt
        calc == (default_read_retry_num + 1) * cycle + 2
        prop == calc + 2
    IN  CASE label = "i2c" -> cfg.retry_num - i2c.cnt + 1
          [] label = "wakeup" -> 1
          [] label = "set_write_mode" -> bus + 2
          [] label = "set_write_mode_1" -> 1
          [] label = "measure" -> meas
          [] label = "measure_1" -> 2 * bus + 5
          [] label = "measure_2" -> bus + 2
          [] label = "measure_3" -> 1
          [] label = "read" -> (left + 1) * cycle
          [] label = "read_1" -> left * cycle + bus + 3
          [] label = "read_2" -> left * cycle + 2
          [] label = "read_3" -> left * cycle + 1
          [] label = "calc" -> calc
          [] label = "calc_1" -> 1
          [] label \in {"humidity", "temperature"} -> prop
          [] label \in {"humidity_1", "temperature_1"} -> 1
          [] label = "discomfort" -> 2 * prop + 3
          [] label = "discomfort_1" -> prop + 2
          [] label = "discomfort_2" -> 1
RECURSIVE SumSteps(_)
SumSteps(labels) ==
    IF labels = <<>> THEN 0 ELSE StepsLeft(Head(labels)) + SumSteps(Tail(labels))
Rank == SumSteps(stack)
C18_ReadTerminates ==
    /\ [](RunsRead =>
            /\ rd.cnt <= OuterRetryNum
            /\ Len(SelectSeq(buslog, IsBlockRead)) <= OuterRetryNum + 1
            /\ Len(SelectSeq(buslog, IsMeasureCommand)) <= OuterRetryNum + 1)
    /\ [](/\ i2c.cnt <= cfg.retry_num
          /\ Len(BusOps(i2c.trace)) <= cfg.retry_num + 1)
    /\ [](Rank >= 0 /\ (stack # <<>> => Rank > 0))
    /\ [][stack # <<>> => Rank' < Rank]_vars
C18_Witness ==
    /\ Done /\ call.op = "humidity" /\ result.kind = "AM232xCrcCheckError"
    /\ Len(SelectSeq(buslog, IsBlockRead)) = default_read_retry_num + 1

\* C19: over any sequence of operations, an 8-byte read is issued, and
\* returns data, only while a measure command is pending, i.e. one was
\* written successfully after the last 8-byte read that returned data (or
\* after construction); the returning read consumes it, and within one
\* operation two returning reads have a measure command between them.
DataReadIssued ==
    /\ ~At("i2c")
    /\ stack' # <<>> /\ Head(stack') = "i2c" /\ i2c'.func = "read_i2c_block_data"
DataReadReturns ==
    /\ At("i2c") /\ i2c.func = "read_i2c_block_data"
    /\ buslog' = Append(buslog, BlockRead)
C19_ReadNeedsPendingMeasure ==
    /\ [][DataReadIssued => hist.pending]_vars
    /\ [][DataReadReturns => (hist.pending /\ ~hist.pending')]_vars
    /\ [][(~hist.pending /\ hist.pending') =>
            /\ At("i2c") /\ i2c.func = "write_i2c_block_data"
            /\ buslog' = Append(buslog, MeasureCommand)]_vars
    /\ [](\A i \in 1..Len(buslog) : \A j \in (i + 1)..Len(buslog) :
            (buslog[i] = BlockRead /\ buslog[j] = BlockRead) =>
                \E k \in (i + 1)..(j - 1) : buslog[k] = MeasureCommand)
\* a read() that fetched the measurement started by an earlier measure()
C19_Witness ==
    /\ Done /\ call.op = "read" /\ result.kind = "ok"
    /\ BusOps(buslog) = <<BlockRead>>
    /\ ~hist.pending

\* C20: read() raises the status error whenever the status check is enabled
\* and byte[2] >= 0x80, whatever the checksum; it raises the checksum error
\* only when the checksum check is enabled, the checksum is wrong and the
\* status check is disabled or passes; it starts another cycle only when an
\* enabled check fails; with both checks disabled it returns the data.
StatusBad(raw) == raw[3] >= 128
CrcBad(raw) == rcv_crcsum(raw) # clc_crcsum(raw)
ErrChecked == IF call.op = "read" THEN call.check_err ELSE call.op \in Accessors
CrcChecked == IF call.op = "read" THEN call.check_crc ELSE call.op \in Accessors
C20_StatusBeforeChecksum ==
    /\ [](Done /\ result.kind = "ReceiveAM232xDataError" =>
            /\ ErrChecked /\ StatusBad(self.raw_data)
            /\ result.val = <<self.raw_data[3]>>)
    /\ [](Done /\ result.kind = "AM232xCrcCheckError" =>
            /\ CrcChecked /\ CrcBad(self.raw_data)
            /\ ~(ErrChecked /\ StatusBad(self.raw_data)))
    /\ [][(At("read_3") /\ rd.check_err /\ StatusBad(self.raw_data)) =>
            \/ Top' = "read" /\ rd'.cnt = rd.cnt + 1
            \/ stack' = <<>> /\ result'.kind = "ReceiveAM232xDataError"]_vars
    /\ [][(At("read_3") /\ Top' = "read") =>
            \/ rd.check_err /\ StatusBad(self.raw_data)
            \/ rd.check_crc /\ CrcBad(self.raw_data)]_vars
    /\ [][(At("read_3") /\ ~rd.check_err /\ ~rd.check_crc) =>
            /\ stack' = Tail(stack) /\ ret' = self.raw_data
            /\ buslog' = buslog]_vars
\* a reading with both defects, both checks enabled: the status error
C20_Witness ==
    /\ Done /\ call.op = "read" /\ call.check_err /\ call.check_crc
    /\ self.raw_data = WithBadCrc(<<3, 4, 129, 0, 0, 0>>)
    /\ result = Outcome("ReceiveAM232xDataError", <<129>>)

====
